---------------------------- MODULE Spec2Model ----------------------------
(***************************************************************************)
(* Model of cgm_models.py: the energy score loss (energy_score) and the    *)
(* conditional generative model wrapper (class cgm: __init__, the two      *)
(* model builders, fit, predict).                                          *)
(*                                                                         *)
(* Numbers.  Tensor entries are held in fixed point, as integer multiples  *)
(* of 1/1000 ("milli").  A product of two entries is in units of 1e-6.     *)
(* The only irrational quantity the code produces on the inputs used here  *)
(* is sqrt(K.epsilon()) = sqrt(1e-7), the value of every clamped square    *)
(* root.  A distance-valued quantity is therefore held exactly as a pair   *)
(*     <<p, q>>   standing for   p/1000 + q * sqrt(1e-7).                  *)
(* A quotient is held as a fraction [num |-> pair, den |-> integer]; a     *)
(* fraction with den = 0 is the result of a float division by zero.        *)
(* Arithmetic is that of the reals: float32 rounding is not modelled, and  *)
(* the input sets are chosen so that every radicand is a perfect square.   *)
(***************************************************************************)
EXTENDS Integers, Sequences, FiniteSets, TLC

VARIABLES
    status,             \* "none" | "built" | "error": outcome of cgm.__init__
    err,                \* name of the exception the last call raised, "" if none
    n_samples_train,    \* self.n_samples_train = self._n_samples
    latent_dist,        \* self.latent_dist
    latent_dist_params, \* self.latent_dist_params, <<>> while the attribute is unset
    build_model,        \* self._build_model: "t2m" | "ws" | "unset"
    params,             \* the weights of self.model
    history,            \* self.history: per step of the last fit, "finite" or "-inf"; <<>> while unset
    rng,                \* number of draws taken so far from the global random generator
    passes,             \* the forward passes run by the last call, in order
    out,                \* the array returned by the last call, <<>> if it returned none
    op,                 \* the last operation performed
    args,               \* the arguments of the last operation
    y_true,             \* energy_score argument of the last call, shape (batch, D, 1)
    y_pred,             \* energy_score argument of the last call, shape (batch, D, N)
    loss                \* energy_score result of the last call, shape (batch,);
                        \* <<>> when the last call evaluated no loss

vars == <<status, err, n_samples_train, latent_dist, latent_dist_params,
          build_model, params, history, rng, passes, out, op, args,
          y_true, y_pred, loss>>

cgmVars == <<status, err, n_samples_train, latent_dist, latent_dist_params,
             build_model, params, history, rng, passes, out, args>>

(***************************************************************************)
(* Bounds of the model.                                                    *)
(***************************************************************************)
MaxN == 3          \* most samples N in an energy_score input
MaxCells == 8      \* most entries of y_true and y_pred together, batch * D * (N + 1)
MaxTrain == 3      \* largest n_samples_train
MaxPredict == 5    \* largest n_samples asked of predict
MaxSteps == 2      \* most training steps of one fit
MaxDraws == 4      \* draws after which no further call is started

(***************************************************************************)
(* Program constants.                                                      *)
(***************************************************************************)
EpsilonInv == 10000000    \* 1 / K.epsilon(), K.epsilon() = 1e-7
ClipMaxRoot == 100000     \* sqrt(1e10), the root of clip_value_max

Milli(x) == 1000 * x

(***************************************************************************)
(* Pairs <<p, q>> = p/1000 + q*sqrt(1e-7) and fractions of them.           *)
(***************************************************************************)
PZero == <<0, 0>>
PAdd(a, b) == <<a[1] + b[1], a[2] + b[2]>>
PSub(a, b) == <<a[1] - b[1], a[2] - b[2]>>
PScale(k, a) == <<k * a[1], k * a[2]>>
Abs(x) == IF x < 0 THEN -x ELSE x

\* (1/1000)^2 / K.epsilon() = 10
EpsRatio == EpsilonInv \div (Milli(1) * Milli(1))

\* a >= 0.  With opposite signs, p/1000 >= |q|*sqrt(1e-7) iff 10*p^2 >= q^2.
PGeqZero(a) ==
    LET p == a[1]
        q == a[2]
    IN  IF p >= 0 /\ q >= 0 THEN TRUE
        ELSE IF p <= 0 /\ q <= 0 THEN FALSE
        ELSE IF p > 0 THEN (p >= -q) \/ (EpsRatio * p * p >= q * q)
        ELSE (q > -p) /\ (q * q >= EpsRatio * p * p)

\* fractions with non-zero denominators denote the same number
FracEq(f, g) == PScale(g.den, f.num) = PScale(f.den, g.num)

\* Newton's iteration for the integer square root, from x >= sqrt(r)
RECURSIVE ISqrtFrom(_, _)
ISqrtFrom(r, x) ==
    LET y == (x + r \div x) \div 2
    IN  IF y >= x THEN x ELSE ISqrtFrom(r, y)

\* floor of the square root of r >= 0
ISqrt(r) ==
    IF r = 0 THEN 0
    ELSE IF r < 1024 THEN ISqrtFrom(r, 32)
    ELSE IF r < 1048576 THEN ISqrtFrom(r, 1024)
    ELSE IF r < 1073741824 THEN ISqrtFrom(r, 32768)
    ELSE ISqrtFrom(r, 46341)

IsSquare(r) == r >= 0 /\ ISqrt(r) * ISqrt(r) = r

\* F(1) + ... + F(n), a sum of pairs
RECURSIVE PSum(_, _)
PSum(F(_), n) == IF n = 0 THEN PZero ELSE PAdd(PSum(F, n - 1), F(n))

\* the sequence <<F(1), ..., F(n)>>
RECURSIVE SeqOf(_, _)
SeqOf(F(_), n) == IF n = 0 THEN <<>> ELSE Append(SeqOf(F, n - 1), F(n))

\* u[1]*v[1] + ... + u[k]*v[k]
RECURSIVE DotTo(_, _, _)
DotTo(u, v, k) == IF k = 0 THEN 0 ELSE DotTo(u, v, k - 1) + u[k] * v[k]

Dot(u, v) == DotTo(u, v, Len(u))


(***************************************************************************)
(* energy_score.  One batch row at a time: T is a row of y_true, a D x 1   *)
(* matrix, and P a row of y_pred, a D x N matrix (P[d][n]).                *)
(***************************************************************************)
Col(M, i) == [d \in 1..Len(M) |-> M[d][i]]

\* tf.sqrt(tf.clip_by_value(r, K.epsilon(), 1e10)) of a radicand r (units 1e-6)
sqrt_clip_noclamp(r) == <<ISqrt(IF r < 0 THEN 0 ELSE r), 0>>
sqrt_clip(r) ==
    IF r <= (Milli(1) * Milli(1)) \div EpsilonInv THEN <<0, 1>>
    ELSE LET root == ISqrt(r)
         IN  IF root >= Milli(ClipMaxRoot) THEN <<Milli(ClipMaxRoot), 0>>
             ELSE <<root, 0>>

\* tf.shape(y_pred)[2]
n_samples_model(P) == Len(P[1])

\* line 39: sum over the N samples of sqrt(clip(y'y + ||y_i||^2 - 2 y'y_i))
es_12_nofactor(T, P) ==
    PSum(LAMBDA i :
            sqrt_clip(Dot(Col(T, 1), Col(T, 1)) + Dot(Col(P, i), Col(P, i))
                      - Dot(Col(T, 1), Col(P, i))),
         n_samples_model(P))
es_12(T, P) ==
    PSum(LAMBDA i :
            sqrt_clip(Dot(Col(T, 1), Col(T, 1)) + Dot(Col(P, i), Col(P, i))
                      - 2 * Dot(Col(T, 1), Col(P, i))),
         n_samples_model(P))

\* line 40: G = y_pred' y_pred, the N x N Gram matrix
Gram(P) ==
    [i \in 1..n_samples_model(P) |->
        [j \in 1..n_samples_model(P) |-> Dot(Col(P, i), Col(P, j))]]

\* line 41: tf.linalg.diag_part(G, k=0)
diag_part_first(G) == [i \in 1..Len(G) |-> G[1][1]]
diag_part(G) == [i \in 1..Len(G) |-> G[i][i]]

\* line 42: sum over all N x N ordered pairs, the diagonal included
es_22(P) ==
    LET G == Gram(P)
        d == diag_part(G)
        n == Len(G)
    IN  PSum(LAMBDA i :
                PSum(LAMBDA j : sqrt_clip(d[j] + d[i] - 2 * G[i][j]), n),
             n)

\* line 44: es_12/n - es_22/(2*n*(n-1)), as one fraction
score_halfnorm(e12, e22, n) ==
    [num |-> PSub(PScale(n * (n - 1), e12), PScale(n, e22)),
     den |-> n * (n * (n - 1))]
score(e12, e22, n) ==
    [num |-> PSub(PScale(2 * n * (n - 1), e12), PScale(n, e22)),
     den |-> n * (2 * n * (n - 1))]

energy_score_row(T, P) == score(es_12(T, P), es_22(P), n_samples_model(P))

energy_score(yt, yp) == SeqOf(LAMBDA b : energy_score_row(yt[b], yp[b]), Len(yp))

(***************************************************************************)
(* The state before any cgm is constructed and before any loss is          *)
(* evaluated.                                                              *)
(***************************************************************************)
NoObject ==
    /\ status = "none"
    /\ err = ""
    /\ n_samples_train = 0
    /\ latent_dist = ""
    /\ latent_dist_params = <<>>
    /\ build_model = "unset"
    /\ params = [mean |-> 0, sd |-> 0, mix |-> 0]
    /\ history = <<>>
    /\ rng = 0
    /\ passes = <<>>
    /\ out = <<>>
    /\ args = [call |-> "none"]

(***************************************************************************)
(* Specification SpecES: energy_score as a pure function.  The inputs are  *)
(* drawn from a bounded set of tensors whose points lie at integer         *)
(* distances of each other: three collinear values for D = 1, the corners  *)
(* of a 3 x 4 rectangle for D = 2.                                         *)
(***************************************************************************)
Dims == {1, 2}

Points(D) ==
    IF D = 1 THEN {<<Milli(0)>>, <<Milli(1)>>, <<Milli(3)>>}
    ELSE {<<a, b>> : a \in {Milli(0), Milli(3)}, b \in {Milli(0), Milli(4)}}

\* the (D, 1) tensor of one point, and the (D, N) tensor of N points
AsTrue(pt) == [d \in 1..Len(pt) |-> <<pt[d]>>]
AsPred(pts) == [d \in 1..Len(pts[1]) |-> [i \in 1..Len(pts) |-> pts[i][d]]]

Shapes ==
    {sh \in (1..MaxCells) \X Dims \X (2..MaxN) :
        sh[1] * sh[2] * (sh[3] + 1) <= MaxCells}

InitES ==
    /\ NoObject
    /\ op = "init"
    /\ loss = <<>>
    /\ \E sh \in Shapes :
          /\ y_true \in {[b \in 1..sh[1] |-> AsTrue(f[b])] :
                            f \in [1..sh[1] -> Points(sh[2])]}
          /\ y_pred \in {[b \in 1..sh[1] |-> AsPred(g[b])] :
                            g \in [1..sh[1] -> [1..sh[3] -> Points(sh[2])]]}

\* loss = energy_score(y_true, y_pred)
EnergyScoreCall ==
    /\ op = "init"
    /\ loss' = energy_score(y_true, y_pred)
    /\ op' = "energy_score"
    /\ UNCHANGED <<cgmVars, y_true, y_pred>>

\* y_pred reordered along axis 2 by the permutation p
PermuteSamples(yp, p) ==
    SeqOf(LAMBDA b :
            SeqOf(LAMBDA d :
                    SeqOf(LAMBDA i : yp[b][d][p[i]], Len(yp[b][d])),
                  Len(yp[b])),
          Len(yp))

\* energy_score called again on the same samples in another order
EnergyScorePermuted ==
    /\ op = "energy_score"
    /\ \E p \in Permutations(1..n_samples_model(y_pred[1])) :
          /\ \E i \in DOMAIN p : p[i] # i
          /\ y_pred' = PermuteSamples(y_pred, p)
          /\ loss' = energy_score(y_true, y_pred')
    /\ op' = "permute"
    /\ UNCHANGED <<cgmVars, y_true>>

NextES == EnergyScoreCall \/ EnergyScorePermuted

SpecES == InitES /\ [][NextES]_vars

(***************************************************************************)
(* class cgm.  One example per call (batch size 1) and dim_out =           *)
(* dim_in_mean = dim_in_std = dim_in_features = dim_latent = 1.  Every     *)
(* stack of trainable layers is collapsed to one integer weight, and the   *)
(* weights, features and latent draws are integers, so that the tensor     *)
(* y = y_mean + y_noise fed to the output is an integer.                   *)
(***************************************************************************)
ModelTypes == {"t2m", "ws", "invalid"}
LatentDists == {"uniform", "normal", "invalid"}
\* latent_dist_params arguments: <<>> stands for None
LatentDistParams == {<<>>, <<1, 2>>}

\* weights of self.model: glorot initialisation, then whatever Adam reaches
ParamSet ==
    {[mean |-> 1, sd |-> 0, mix |-> 1],
     [mean |-> -2, sd |-> 1, mix |-> -1]}

\* one example of [input_mean, input_sd, input_all]
XSet ==
    {[mean |-> -2, sd |-> 1, all |-> 1],
     [mean |-> 3, sd |-> 0, all |-> -1]}

\* one target, shape (dim_out, 1)
YSet == {Milli(2)}

\* lines 102-108: the attribute stays unset for an unknown family given None
InitLatentDistParams(dist, given) ==
    IF given = <<>>
    THEN IF dist = "uniform" THEN <<-1, 1>>
         ELSE IF dist = "normal" THEN <<0, 1>>
         ELSE <<>>
    ELSE given

\* lines 112-115: self._build_model stays unset for an unknown model_type
SelectBuilderDefaulting(model_type) ==
    IF model_type = "ws" THEN "ws" ELSE "t2m"
SelectBuilder(model_type) ==
    IF model_type = "t2m" THEN "t2m"
    ELSE IF model_type = "ws" THEN "ws"
    ELSE "unset"

\* lines 157-164 and 231-238: the layer bound to the local name epsilon
EpsilonLayer(dist) ==
    IF dist = "uniform" THEN "random_uniform"
    ELSE IF dist = "normal" THEN "random_normal"
    ELSE "unbound"

\* line 118: the exception self._build_model() raises, "" when it returns a Model
BuildError(builder, dist) ==
    IF builder = "unset" THEN "AttributeError"
    ELSE IF EpsilonLayer(dist) = "unbound" THEN "UnboundLocalError"
    ELSE ""

\* cgm(..., n_samples_train, model_type, latent_dist, latent_dist_params)
Construct(model_type, dist, dist_params, n_train) ==
    /\ status = "none"
    /\ n_samples_train' = n_train
    /\ latent_dist' = dist
    /\ latent_dist_params' = InitLatentDistParams(dist, dist_params)
    /\ build_model' = SelectBuilder(model_type)
    /\ err' = BuildError(build_model', dist)
    /\ IF err' = ""
       THEN status' = "built" /\ params' \in ParamSet
       ELSE status' = "error" /\ UNCHANGED params
    /\ op' = "construct"
    /\ args' = [call |-> "cgm", model_type |-> model_type, latent_dist |-> dist,
                latent_dist_params |-> dist_params, n_samples_train |-> n_train]
    /\ UNCHANGED <<history, rng, passes, out, y_true, y_pred, loss>>

(***************************************************************************)
(* The forward pass of self.model.                                         *)
(***************************************************************************)
\* the global generator: every execution of K.random_uniform / K.random_normal
\* takes the next draw of its stream
NextDrawCached(r) == r
NextDraw(r) == r + 1

\* entry j of draw number `draw`, quantised to the integers of the family's
\* support: [minval, maxval) for uniform, mean + stddev * {-2..2} for normal
Epsilon(dist, dp, draw, j) ==
    IF dist = "uniform" THEN dp[1] + ((draw + j) % (dp[2] - dp[1]))
    ELSE dp[1] + dp[2] * (((draw + 2 * j) % 5) - 2)

\* activation 'exponential' of the spread branch, in base 2
Exponential(k) == 2 ^ k

\* lines 188 and 264: y = mean branch + mixing branch on [input_all, sd_z * epsilon]
PreActivation(w, x, eps) ==
    w.mean * x.mean + w.mix * (x.all + Exponential(w.sd * x.sd) * eps)

\* keras.activations.softplus, log(1 + exp(y)), in milli, rounded down
SoftplusOmitted(y) == Milli(y)
Softplus(y) ==
    IF y >= 8 THEN Milli(y)
    ELSE IF y <= -7 THEN 0
    ELSE CASE y = -6 -> 2    [] y = -5 -> 6    [] y = -4 -> 18   [] y = -3 -> 48
           [] y = -2 -> 126  [] y = -1 -> 313  [] y = 0 -> 693   [] y = 1 -> 1313
           [] y = 2 -> 2126  [] y = 3 -> 3048  [] y = 4 -> 4018  [] y = 5 -> 5006
           [] y = 6 -> 6002  [] y = 7 -> 7000

\* lines 190 and 267-269: the output tensor of the model
Output(builder, y) == IF builder = "ws" THEN Softplus(y) ELSE Milli(y)

\* one execution of self.model on x with weights w, taking draw number `draw`
ForwardPass(w, x, draw) ==
    [draw |-> draw,
     family |-> EpsilonLayer(latent_dist),
     shape |-> <<1, 1, n_samples_train>>,
     samples |->
        SeqOf(LAMBDA j :
                LET y == PreActivation(w, x,
                            Epsilon(latent_dist, latent_dist_params, draw, j))
                IN  [id |-> <<draw, j>>, pre |-> y, val |-> Output(build_model, y)],
              n_samples_train)]

\* the draw taken by the i-th execution after generator state r
RECURSIVE DrawOf(_, _)
DrawOf(r, i) == IF i = 0 THEN r ELSE NextDraw(DrawOf(r, i - 1))

\* k forward passes in a row from generator state r, pass i with weights W[i]
RunPasses(r, k, x, W) == SeqOf(LAMBDA i : ForwardPass(W[i], x, DrawOf(r, i)), k)

\* the (batch, D, N) tensor of one pass
AsTensor(pass) == <<<<SeqOf(LAMBDA j : pass.samples[j].val, Len(pass.samples))>>>>

\* an entry of history.history["loss"]: the step's loss, up to finiteness
LossLabel(f) == IF f.den = 0 THEN "-inf" ELSE "finite"

(***************************************************************************)
(* fit (lines 316-329): `steps` training steps, each one forward pass,    *)
(* one evaluation of the EnergyScore loss and one Adam update.             *)
(***************************************************************************)
Fit(x, y, steps) ==
    /\ status = "built"
    /\ rng + steps <= MaxDraws
    /\ \E W \in [1..steps -> ParamSet] :
          /\ passes' = RunPasses(rng, steps, x,
                          SeqOf(LAMBDA i : IF i = 1 THEN params ELSE W[i - 1], steps))
          /\ rng' = passes'[steps].draw
          /\ y_true' = <<<<<<y>>>>>>
          /\ y_pred' = AsTensor(passes'[steps])
          /\ loss' = energy_score(y_true', y_pred')
          /\ history' = SeqOf(LAMBDA i :
                                IF i = steps THEN LossLabel(loss'[1])
                                ELSE LossLabel(energy_score(y_true',
                                                            AsTensor(passes'[i]))[1]),
                             steps)
          /\ params' = W[steps]
    /\ err' = ""
    /\ op' = "fit"
    /\ args' = [call |-> "fit", x |-> x, y |-> y, steps |-> steps]
    /\ out' = <<>>
    /\ UNCHANGED <<status, n_samples_train, latent_dist, latent_dist_params,
                   build_model>>

(***************************************************************************)
(* predict (lines 351-354).                                                *)
(***************************************************************************)
\* np.int(np.ceil(n_samples / self._n_samples))
NumPassesFloor(n_samples, n) == n_samples \div n
NumPasses(n_samples, n) ==
    IF n_samples % n = 0 THEN n_samples \div n ELSE n_samples \div n + 1

\* np.concatenate(S, axis=2)
RECURSIVE Concatenate(_)
Concatenate(S) ==
    IF S = <<>> THEN <<>> ELSE Head(S).samples \o Concatenate(Tail(S))

\* [:, :, 0:n_samples]
Slice(c, n_samples) ==
    SubSeq(c, 1, IF n_samples < Len(c) THEN n_samples ELSE Len(c))

\* self.model.predict runs the network and leaves the object as it was
PredictRetrains ==
    /\ params' \in ParamSet
    /\ UNCHANGED <<status, n_samples_train, latent_dist, latent_dist_params,
                   build_model, history>>
PredictFrame ==
    UNCHANGED <<status, n_samples_train, latent_dist, latent_dist_params,
                build_model, params, history>>

Predict(x_test, n_samples) ==
    /\ status = "built"
    /\ rng + NumPasses(n_samples, n_samples_train) <= MaxDraws
    /\ LET k == NumPasses(n_samples, n_samples_train)
       IN  /\ passes' = RunPasses(rng, k, x_test, SeqOf(LAMBDA i : params, k))
           /\ rng' = IF k = 0 THEN rng ELSE passes'[k].draw
           /\ IF k = 0
              THEN err' = "ValueError" /\ out' = <<>>
              ELSE err' = "" /\ out' = Slice(Concatenate(passes'), n_samples)
    /\ op' = "predict"
    /\ args' = [call |-> "predict", x_test |-> x_test, n_samples |-> n_samples]
    /\ y_true' = <<>> /\ y_pred' = <<>> /\ loss' = <<>>
    /\ PredictFrame

Init ==
    /\ NoObject
    /\ op = "init"
    /\ y_true = <<>>
    /\ y_pred = <<>>
    /\ loss = <<>>

Next ==
    \/ \E mt \in ModelTypes, ld \in LatentDists, dp \in LatentDistParams,
          n \in 1..MaxTrain : Construct(mt, ld, dp, n)
    \/ \E x \in XSet, y \in YSet, steps \in 1..MaxSteps : Fit(x, y, steps)
    \/ \E x \in XSet, n \in 0..MaxPredict : Predict(x, n)

Spec == Init /\ [][Next]_vars

(***************************************************************************)
(* Properties of energy_score, checked under SpecES.                       *)
(*                                                                         *)
(* The reference values below are computed from coordinate differences,    *)
(* not through the Gram matrix.                                            *)
(***************************************************************************)
RECURSIVE SqDistTo(_, _, _)
SqDistTo(u, v, k) ==
    IF k = 0 THEN 0
    ELSE SqDistTo(u, v, k - 1) + (u[k] - v[k]) * (u[k] - v[k])

\* ||u - v||, exact on the input set (every squared distance is a square)
Norm(u, v) == <<ISqrt(SqDistTo(u, v, Len(u))), 0>>

\* ||u - v|| clamped to [sqrt(1e-7), 1e5]
ClampedNorm(u, v) ==
    LET x == Norm(u, v)
    IN  IF PGeqZero(PSub(<<0, 1>>, x)) THEN <<0, 1>>
        ELSE IF PGeqZero(PSub(x, <<Milli(ClipMaxRoot), 0>>))
             THEN <<Milli(ClipMaxRoot), 0>>
        ELSE x

\* (1/N) sum_i D(y, y_i) - 1/(2N(N-1)) sum_i sum_j D(y_i, y_j), pairs i # j only
Estimator(D(_, _), T, P) ==
    LET n == n_samples_model(P)
    IN  [num |-> PSub(PScale(2 * (n - 1),
                             PSum(LAMBDA i : D(Col(T, 1), Col(P, i)), n)),
                      PSum(LAMBDA i :
                              PSum(LAMBDA j : IF i = j THEN PZero
                                              ELSE D(Col(P, i), Col(P, j)), n),
                           n)),
         den |-> 2 * n * (n - 1)]

Reference(T, P) == Estimator(Norm, T, P)

\* the estimator on clamped norms, less sqrt(1e-7)/(2(N-1)) for the N diagonal terms
ClampedReference(T, P) ==
    LET e == Estimator(ClampedNorm, T, P)
    IN  [num |-> PSub(e.num, <<0, n_samples_model(P)>>), den |-> e.den]

Evaluated == op \in {"energy_score", "permute"}

\* every distance between two points of the input is an integer number of milli
AllSquares ==
    \A b \in DOMAIN y_pred : \A i, j \in 1..n_samples_model(y_pred[b]) :
        /\ IsSquare(SqDistTo(Col(y_pred[b], i), Col(y_pred[b], j), Len(y_pred[b])))
        /\ IsSquare(SqDistTo(Col(y_true[b], 1), Col(y_pred[b], j), Len(y_pred[b])))

\* C2 (as stated): energy_score returns exactly the reference estimator
\* (1/N) sum_i ||y - y_i|| - 1/(2N(N-1)) sum_i sum_j ||y_i - y_j||; for N = 2
\* that is (||t-a|| + ||t-b||)/2 - ||a-b||/2, and 1 for t = 0, a = 1, b = 3.
C2_EqualsReference ==
    Evaluated =>
        \A b \in DOMAIN loss : FracEq(loss[b], Reference(y_true[b], y_pred[b]))

\* C2 (amended): energy_score returns the estimator taken on norms clamped to
\* [sqrt(epsilon), 1e5], less sqrt(epsilon)/(2(N-1)) contributed by the N clamped
\* self-distances; for t = 0, a = 1, b = 3 that is 1 - sqrt(epsilon)/2.
C2_EqualsClampedReference ==
    Evaluated =>
        /\ AllSquares
        /\ \A b \in DOMAIN loss :
              FracEq(loss[b], ClampedReference(y_true[b], y_pred[b]))
        /\ \A b \in DOMAIN loss :
              (y_true[b] = <<<<Milli(0)>>>> /\ y_pred[b] = <<<<Milli(1), Milli(3)>>>>)
                 => FracEq(loss[b], [num |-> <<Milli(2), -1>>, den |-> 2])

\* the hand-computed example D = 1, t = 0, a = 1, b = 3
C2_Witness ==
    /\ op = "energy_score"
    /\ \E b \in DOMAIN loss :
          y_true[b] = <<<<Milli(0)>>>> /\ y_pred[b] = <<<<Milli(1), Milli(3)>>>>

\* C3 (as stated): every entry of the returned tensor is non-negative.
C3_NonNegative ==
    Evaluated => \A b \in DOMAIN loss : PGeqZero(loss[b].num)

\* C3 (amended): every entry of the returned tensor is at least
\* -sqrt(epsilon)/(2(N-1)).
C3_LowerBound ==
    Evaluated =>
        \A b \in DOMAIN loss :
            /\ loss[b].den > 0
            /\ PGeqZero(PAdd(PScale(2 * (n_samples_model(y_pred[b]) - 1), loss[b].num),
                             <<0, loss[b].den>>))

\* a negative entry, which attains the bound: N = 2 and y_true strictly
\* between the two samples
C3_Witness ==
    /\ Evaluated
    /\ \E b \in DOMAIN loss :
          /\ n_samples_model(y_pred[b]) = 2
          /\ ~PGeqZero(loss[b].num)
          /\ PScale(2, loss[b].num) = <<0, -loss[b].den>>

AllSamplesEqualTruth(b) ==
    \A i \in 1..n_samples_model(y_pred[b]) : Col(y_pred[b], i) = Col(y_true[b], 1)

\* C4 (as stated): when every sample equals y_true, energy_score returns 0.
C4_ZeroAtTruth ==
    Evaluated =>
        \A b \in DOMAIN loss : AllSamplesEqualTruth(b) => loss[b].num = PZero

\* C4 (amended): when every sample equals y_true, energy_score returns
\* sqrt(epsilon) * (N-2) / (2(N-1)), which is 0 exactly when N = 2.
C4_ClampResidueAtTruth ==
    Evaluated =>
        \A b \in DOMAIN loss :
            AllSamplesEqualTruth(b) =>
                LET n == n_samples_model(y_pred[b])
                IN  /\ FracEq(loss[b], [num |-> <<0, n - 2>>, den |-> 2 * (n - 1)])
                    /\ (loss[b].num = PZero <=> n = 2)

C4_Witness ==
    /\ op = "energy_score"
    /\ \E b \in DOMAIN loss :
          /\ AllSamplesEqualTruth(b)
          /\ n_samples_model(y_pred[b]) = 3
          /\ Len(y_pred[b]) = 2

\* C9: reordering the samples along axis 2 leaves every entry of the result
\* unchanged.
C9_PermutationInvariant ==
    [][op' = "permute" => loss' = loss]_vars

\* a reordering that changed the tensor, on samples at three distinct points
C9_Witness ==
    /\ op = "permute"
    /\ \E b \in DOMAIN y_pred :
          /\ n_samples_model(y_pred[b]) = 3
          /\ Cardinality({Col(y_pred[b], i) : i \in 1..3}) = 3
          /\ y_true[b] # AsTrue(Col(y_pred[b], 1))

(***************************************************************************)
(* Properties of class cgm, checked under Spec.                            *)
(***************************************************************************)
\* the least m with m * n >= k
LeastCover(k, n) == CHOOSE m \in 0..k : m * n >= k /\ \A l \in 0..(m - 1) : l * n < k

\* C1: predict(x_test, n_samples) with n_samples >= 1 runs exactly
\* ceil(n_samples / n_samples_train) forward passes and returns the first
\* n_samples entries, in pass order, of their concatenation: entry k of the
\* result is entry ((k-1) mod n_samples_train) + 1 of pass
\* ((k-1) div n_samples_train) + 1, no generated sample is returned twice, and
\* only trailing samples of the last pass are left out.
C1_PredictConcatenatesAndTruncates ==
    (op = "predict" /\ args.n_samples >= 1) =>
        LET n == n_samples_train
            k == args.n_samples
        IN  /\ err = ""
            /\ Len(passes) = LeastCover(k, n)
            /\ \A i \in DOMAIN passes : Len(passes[i].samples) = n
            /\ Len(out) = k
            /\ \A e \in 1..k :
                  out[e] = passes[((e - 1) \div n) + 1].samples[((e - 1) % n) + 1]
            /\ \A e, f \in 1..k : e # f => out[e].id # out[f].id
            /\ (Len(passes) - 1) * n < k

\* seven samples asked of a model built for five are not reachable within the
\* bounds; here five samples are asked of a model built for two or three, so that
\* at least two passes run and the last one is truncated
C1_Witness ==
    /\ op = "predict"
    /\ err = ""
    /\ args.n_samples = MaxPredict
    /\ Len(passes) >= 2
    /\ Len(passes) * n_samples_train > Len(out)

ValidModelTypes == {"t2m", "ws"}
ValidLatentDists == {"uniform", "normal"}

C6_SingleSampleRejected ==
    /\ status = "built" => n_samples_train >= 2
    /\ op = "fit" => \A b \in DOMAIN loss :
                        n_samples_model(y_pred[b]) >= 2 /\ loss[b].den # 0

\* C7: a predict call leaves the network parameters, the stored training
\* history, n_samples_train, latent_dist and latent_dist_params unchanged.
C7_PredictLeavesParameters ==
    [][op' = "predict" =>
          UNCHANGED <<params, history, n_samples_train, latent_dist,
                      latent_dist_params>>]_vars

\* a predict on a model that was fitted before
C7_Witness ==
    /\ op = "predict"
    /\ err = ""
    /\ history # <<>>
    /\ Len(out) >= 1

AllSamples == {passes[i].samples[j] : i \in DOMAIN passes, j \in 1..n_samples_train}

\* C8: every value a "ws" model puts out is non-negative, whatever the sign of
\* the tensor y = mean branch + mixing branch, the input, the latent draw and the
\* weights; a "t2m" model puts out y itself.
C8_WsOutputNonNegative ==
    /\ build_model = "ws" =>
          /\ \A smp \in AllSamples : smp.val >= 0
          /\ \A e \in DOMAIN out : out[e].val >= 0
    /\ build_model = "t2m" => \A smp \in AllSamples : smp.val = Milli(smp.pre)

\* a "ws" forward pass whose tensor y is negative
C8_Witness ==
    /\ build_model = "ws"
    /\ op = "predict"
    /\ args.x_test.mean < 0
    /\ \E e \in DOMAIN out : out[e].pre < 0 /\ out[e].val >= 0

\* C10: every forward pass of a fit or a predict call takes its own draw from
\* the generator, of shape (batch, dim_latent, n_samples_train) and of the
\* configured family: pass i of a call uses draw number rng + i, which no
\* earlier pass has used, and the generator has advanced by the number of
\* passes when the call returns.
C10_FreshDrawPerPass ==
    [][op' \in {"fit", "predict"} =>
          /\ \A i \in DOMAIN passes' :
                /\ passes'[i].draw = rng + i
                /\ passes'[i].shape = <<1, 1, n_samples_train>>
                /\ passes'[i].family = EpsilonLayer(latent_dist)
          /\ rng' = rng + Len(passes')
          /\ Len(passes') = IF op' = "fit" THEN args'.steps
                            ELSE NumPasses(args'.n_samples, n_samples_train)]_vars

\* a predict of several passes on a model whose fit already took draws
C10_Witness ==
    /\ op = "predict"
    /\ history # <<>>
    /\ Len(passes) >= 2
    /\ passes[1].draw >= 2
    /\ passes[2].draw = passes[1].draw + 1

=============================================================================
